---- MODULE Spec2Model ----
(***************************************************************************)
(* Product OCR API: the /process-catalog request handler                   *)
(* (app/api/routes.py) and the SKU resolver / database client it drives    *)
(* (app/services/ocr_service.py).                                          *)
(*                                                                         *)
(* Strings are sequences of one-character strings, so that strip, lower    *)
(* and replace are computed character by character as Python computes      *)
(* them.  A stored product is represented by its 'color' field, the only   *)
(* field of a lookup's data the service reads.                             *)
(***************************************************************************)
EXTENDS Integers, Sequences, FiniteSets, TLC

\* ------------------------------------------------------------------ bounds

\* Longest candidate list the vision model returns for the submitted image.
MaxLen == 2

\* Most downstream calls / upload steps that fail in one run.
MaxFaults == 2

\* Longest color label handed to normalize_color on its own.
MaxLabelLen == 3

\* ------------------------------------------------------- string functions

Space == " "
Tab == "\t"

\* The characters str.strip() removes, among those of the model's labels.
Whitespace == { Space, Tab }

\* str.lower() on the letters that occur in the model's labels.
LowerChar(ch) ==
    CASE ch = "W" -> "w"
      [] ch = "G" -> "g"
      [] ch = "K" -> "k"
      [] ch = "M" -> "m"
      [] ch = "A" -> "a"
      [] OTHER -> ch

RECURSIVE LStrip(_)
LStrip(s) ==
    IF s = <<>> THEN <<>>
    ELSE IF Head(s) \in Whitespace THEN LStrip(Tail(s)) ELSE s

RECURSIVE RStrip(_)
RStrip(s) ==
    IF s = <<>> THEN <<>>
    ELSE IF s[Len(s)] \in Whitespace THEN RStrip(SubSeq(s, 1, Len(s) - 1)) ELSE s

\* str.strip(): leading and trailing whitespace of any kind is removed.
Strip(s) == RStrip(LStrip(s))

\* str.lower()
Lower(s) == [i \in 1..Len(s) |-> LowerChar(s[i])]

\* str.replace(old, new) for a one-character old and a string new
RECURSIVE Replace(_, _, _)
Replace(s, old, new) ==
    IF s = <<>> THEN <<>>
    ELSE (IF Head(s) = old THEN new ELSE <<Head(s)>>) \o Replace(Tail(s), old, new)

\* generate_variant_sku: base SKU, a space, the stripped color with spaces
\* turned into underscores.
generate_variant_sku(base_sku, secondary_color) ==
    base_sku \o <<Space>> \o Replace(Strip(secondary_color), Space, <<"_">>)

\* normalize_color: strip, lower, drop ' ', '-' and '_'.
normalize_color(color) ==
    IF color = <<>> THEN <<>>
    ELSE Replace(Replace(Replace(Lower(Strip(color)), Space, <<>>), "-", <<>>), "_", <<>>)

\* ------------------------------------------------------------- the inputs

\* Product codes as printed in a catalog.  The second one is the code a
\* variant of the first gets with the finish "m".
PlainSku == <<"A">>
SpacedSku == <<"A", " ", "m">>
BaseSkus == { PlainSku, SpacedSku }

\* primary_color labels; "W" and "w " normalize to the same key.
White == <<"W">>
Grey == <<"G">>
LowerWhite == <<"w", " ">>
PrimaryColors == { White, LowerWhite, Grey }

\* secondary_color labels; the empty one makes the primary color the suffix.
SecondaryColors == { <<>>, <<"m">> }

\* Product (the fields the save path reads for its decision): the first code
\* in white with and without a finish, in grey with the finish, and in a
\* second spelling of white; the second code in white.
Candidates ==
    [sku : { PlainSku }, primary_color : { White }, secondary_color : SecondaryColors]
    \cup [sku : { PlainSku }, primary_color : { Grey }, secondary_color : { <<"m">> }]
    \cup [sku : { PlainSku }, primary_color : { LowerWhite }, secondary_color : { <<>> }]
    \cup [sku : { SpacedSku }, primary_color : { White }, secondary_color : { <<>> }]

RECURSIVE SeqsUpTo(_, _)
SeqsUpTo(S, n) ==
    IF n = 0 THEN { <<>> }
    ELSE LET shorter == SeqsUpTo(S, n - 1)
         IN  shorter \cup { Append(s, x) : s \in { t \in shorter : Len(t) = n - 1 }, x \in S }

\* ProductCatalog.products
Catalogs == SeqsUpTo(Candidates, MaxLen)

\* line 187: secondary_color if it is non-empty, else primary_color
ColorSuffix(product) ==
    IF product.secondary_color # <<>> THEN product.secondary_color
    ELSE product.primary_color

VariantSkuOf(product) == generate_variant_sku(product.sku, ColorSuffix(product))

\* Every SKU the service can read or write.
AllSkus == BaseSkus \cup { VariantSkuOf(p) : p \in Candidates }

\* Python's None
None == [none |-> TRUE]

\* lookup_product_by_sku returns None
NoProduct == None

\* The 'data' of a stored product: its color.
Stored(color) == [color |-> color]

\* A color stored by another client of the database.
ForeignColor == <<"K">>

\* The database before the first request: empty, or holding the first
\* product code with a color of its own.
InitialDatabases ==
    { [s \in AllSkus |-> NoProduct],
      [s \in AllSkus |-> IF s = PlainSku THEN Stored(ForeignColor) ELSE NoProduct] }

\* UploadFile.content_type, split after the slash: missing (None), empty,
\* not an image, an image.
NoContentType == None
ContentType(prefix, rest) == [prefix |-> prefix, rest |-> rest]
EmptyContentType == ContentType("", "")
ContentTypes ==
    { NoContentType, EmptyContentType, ContentType("text/", "plain"),
      ContentType("image/", "png") }

\* ocr_service.py line 135: the base the lookup URL is built on.
LookupBaseUrl == "http://35.182.153.121:5001/api/products"

\* config.py line 10: the default of settings.database_api_url.
DefaultDatabaseApiUrl == "http://35.182.153.121:5001/api/products"

\* A DATABASE_API_URL set in the environment or .env.
OtherDatabaseApiUrl == "http://db.internal:5001/api/products"

DatabaseApiUrls == { DefaultDatabaseApiUrl, OtherDatabaseApiUrl }

\* The characters of the color labels normalize_color is applied to on its
\* own: a letter in both cases, the three separators, and a tab.
LabelChars == { "W", "w", Space, "-", "_", Tab }

\* Product.primary_color, or the 'color' of a stored product: any string.
Labels == SeqsUpTo(LabelChars, MaxLabelLen)

\* Requests in arrival order; both submit the same image.
Requests == { 1, 2 }

\* ------------------------------------------------------------------ state

VARIABLES
    db,             \* the product database the lookups read: SKU -> stored product
    other_db,       \* the database at settings.database_api_url when that is another one
    database_api_url, \* settings.database_api_url
    catalog,        \* what the vision model reads off the submitted image
    pc,             \* each request's position in process_catalog_image
    content_type,   \* file.content_type
    tmp_path,       \* the handler's tmp_path: TRUE once assigned (line 23)
    files,          \* requests whose scratch file exists on disk
    products,       \* result.products
    base_product,   \* save_product_to_db's base_product
    variant_product,\* save_product_to_db's variant_product
    absorbed,       \* SKUs whose lookup failed for the latest candidate
    save_results,   \* the handler's save_results
    counts,         \* success_count, duplicate_count, variant_count
    response,       \* what the request returned
    calls,          \* the external calls each request made, in order
    saved,          \* <<base SKU, normalized primary color>> pairs upserted
    faults,         \* failures injected so far
    color_labels,   \* two color labels handed to normalize_color
    color_keys      \* what normalize_color returned for them, in call order

vars == << db, other_db, database_api_url, catalog, pc, content_type, tmp_path, files, products, base_product,
           variant_product, absorbed, save_results, counts, response, calls,
           saved, faults, color_labels, color_keys >>

NoResponse == None

\* No request has arrived.
NoRequestYet ==
    /\ pc = [r \in Requests |-> "idle"]
    /\ content_type = [r \in Requests |-> NoContentType]
    /\ tmp_path = [r \in Requests |-> FALSE]
    /\ files = {}
    /\ products = [r \in Requests |-> <<>>]
    /\ base_product = [r \in Requests |-> NoProduct]
    /\ variant_product = [r \in Requests |-> NoProduct]
    /\ absorbed = [r \in Requests |-> {}]
    /\ save_results = [r \in Requests |-> <<>>]
    /\ counts = [r \in Requests |-> [success |-> 0, duplicate |-> 0, variant |-> 0]]
    /\ response = [r \in Requests |-> NoResponse]
    /\ calls = [r \in Requests |-> <<>>]
    /\ saved = {}
    /\ faults = 0

\* The state after startup, for every configured database URL.
InitConfigured ==
    /\ db \in InitialDatabases
    /\ other_db = [s \in AllSkus |-> NoProduct]
    /\ database_api_url \in DatabaseApiUrls
    /\ catalog \in Catalogs
    /\ NoRequestYet
    /\ color_labels = << <<>>, <<>> >>
    /\ color_keys = <<>>

\* The state after startup with the configuration left at its defaults.
Init ==
    /\ InitConfigured
    /\ database_api_url = DefaultDatabaseApiUrl

\* -------------------------------------------------------- save_product_to_db

\* The candidate save_product_to_db is working on: the for loop of
\* process_catalog_image is at the first product without a result.
Product(r) == products[r][Len(save_results[r]) + 1]

\* Mutant of lookup_product_by_sku: the status and 'success' checks are
\* missing, so a failed GET's body is returned as a product without a color.
lookup_returning_error_body(sku, answered) ==
    IF answered THEN db[sku] ELSE Stored(<<>>)

\* lookup_product_by_sku: the stored data when the GET answers 200 with
\* success and data; None on any failure (the bare except) or when absent.
lookup_product_by_sku(sku, answered) ==
    IF answered THEN db[sku] ELSE NoProduct

\* lines 174-177 and 193-195: the looked-up product exists and its normalized
\* color equals the candidate's normalized primary color.
SameColor(found, product) ==
    /\ found # NoProduct
    /\ normalize_color(found.color) = normalize_color(product.primary_color)

\* Mutant of FinalSku: the original SKU is kept when the base SKU is taken.
FinalSkuAlwaysOriginal(base, product) == product.sku

\* lines 203-211: the variant SKU when the base SKU is taken, else the
\* original SKU.
FinalSku(base, product) ==
    IF base # NoProduct THEN VariantSkuOf(product) ELSE product.sku

\* lines 179-183
DuplicateOfBase(product) ==
    [status |-> "duplicate", sku |-> product.sku, error |-> "already exists",
     variant_info |-> FALSE]

\* lines 197-201
DuplicateOfVariant(product) ==
    [status |-> "duplicate", sku |-> VariantSkuOf(product), error |-> "variant already exists",
     variant_info |-> FALSE]

\* lines 237-248
Success(base, product) ==
    [status |-> "success", sku |-> FinalSku(base, product), error |-> "",
     variant_info |-> (base # NoProduct)]

\* Mutant of Error: the except branch reports the duplicate status.
ErrorAsDuplicate(base, product) ==
    [status |-> "duplicate", sku |-> FinalSku(base, product), error |-> "request exception",
     variant_info |-> FALSE]

\* lines 250-257
Error(base, product) ==
    [status |-> "error", sku |-> FinalSku(base, product), error |-> "request exception",
     variant_info |-> FALSE]

\* routes.py lines 38-50: count the status and append the ProcessingResult.
Track(r, save_result) ==
    /\ counts' = [counts EXCEPT
          ![r].success = @ + (IF save_result.status = "success" THEN 1 ELSE 0),
          ![r].variant = @ + (IF save_result.status = "success" /\ save_result.variant_info
                              THEN 1 ELSE 0),
          ![r].duplicate = @ + (IF save_result.status = "duplicate" THEN 1 ELSE 0)]
    /\ save_results' = [save_results EXCEPT ![r] = Append(@,
          [status |-> save_result.status,
           sku |-> save_result.sku,
           error |-> IF save_result.error # "" THEN save_result.error
                     ELSE IF save_result.variant_info THEN "variant created" ELSE ""])]

Call(op, sku, ok) == [op |-> op, sku |-> sku, ok |-> ok]

\* A call may fail only while the fault budget lasts.
Outcomes == { TRUE } \cup (IF faults < MaxFaults THEN { FALSE } ELSE {})

Fault(ok) == faults' = faults + (IF ok THEN 0 ELSE 1)

\* save_product_to_db lines 164-183: look the base SKU up; return the
\* duplicate if it is stored with the same color.
LookupBase(r) ==
    /\ pc[r] = "save"
    /\ Len(save_results[r]) < Len(products[r])
    /\ \E answered \in Outcomes :
        LET product == Product(r)
            found   == lookup_product_by_sku(product.sku, answered)
        IN  /\ Fault(answered)
            /\ calls' = [calls EXCEPT ![r] = Append(@, Call("lookup", product.sku, answered))]
            /\ IF SameColor(found, product)
               THEN /\ Track(r, DuplicateOfBase(product))
                    /\ absorbed' = [absorbed EXCEPT ![r] = {}]
                    /\ UNCHANGED << pc, base_product >>
               ELSE /\ base_product' = [base_product EXCEPT ![r] = found]
                    /\ absorbed' = [absorbed EXCEPT ![r] =
                                       IF answered THEN {} ELSE { product.sku }]
                    /\ pc' = [pc EXCEPT ![r] = "variant"]
                    /\ UNCHANGED << save_results, counts >>
    /\ UNCHANGED << color_labels, color_keys, db, other_db, database_api_url, catalog, content_type, tmp_path, files, products,
                    variant_product, response, saved >>

\* save_product_to_db lines 185-201: look the variant SKU up; return the
\* duplicate if it is stored with the same color.
LookupVariant(r) ==
    /\ pc[r] = "variant"
    /\ \E answered \in Outcomes :
        LET product == Product(r)
            variant_sku == VariantSkuOf(product)
            found   == lookup_product_by_sku(variant_sku, answered)
        IN  /\ Fault(answered)
            /\ calls' = [calls EXCEPT ![r] = Append(@, Call("lookup", variant_sku, answered))]
            /\ IF SameColor(found, product)
               THEN /\ Track(r, DuplicateOfVariant(product))
                    /\ pc' = [pc EXCEPT ![r] = "save"]
                    /\ base_product' = [base_product EXCEPT ![r] = NoProduct]
                    /\ UNCHANGED << variant_product, absorbed >>
               ELSE /\ variant_product' = [variant_product EXCEPT ![r] = found]
                    /\ absorbed' = [absorbed EXCEPT ![r] =
                                       @ \cup (IF answered THEN {} ELSE { variant_sku })]
                    /\ pc' = [pc EXCEPT ![r] = "upsert"]
                    /\ UNCHANGED << save_results, counts, base_product >>
    /\ UNCHANGED << color_labels, color_keys, db, other_db, database_api_url, catalog, content_type, tmp_path, files, products,
                    response, saved >>

\* lines 214-234: the database at settings.database_api_url stores the
\* payload under final_sku; that is the database the lookups read only when
\* the URL is the one line 135 spells out.
Post(final_sku, product) ==
    IF database_api_url = LookupBaseUrl
    THEN /\ db' = [db EXCEPT ![final_sku] = Stored(product.primary_color)]
         /\ UNCHANGED other_db
    ELSE /\ other_db' = [other_db EXCEPT ![final_sku] = Stored(product.primary_color)]
         /\ UNCHANGED db

\* save_product_to_db lines 203-257: POST the payload under the final SKU;
\* success when the database takes it, error on a RequestException (a non-2xx
\* answer, or a transport failure or timeout, after which the database may
\* or may not hold the product).
Upsert(r) ==
    /\ pc[r] = "upsert"
    /\ \E accepted \in Outcomes :
        LET product   == Product(r)
            final_sku == FinalSku(base_product[r], product)
        IN  /\ Fault(accepted)
            /\ calls' = [calls EXCEPT ![r] = Append(@, Call("upsert", final_sku, accepted))]
            /\ IF accepted
               THEN /\ Post(final_sku, product)
                    /\ saved' = saved \cup
                                { << product.sku, normalize_color(product.primary_color) >> }
                    /\ Track(r, Success(base_product[r], product))
               ELSE /\ Track(r, Error(base_product[r], product))
                    /\ \E applied \in BOOLEAN :
                         IF applied THEN Post(final_sku, product)
                         ELSE UNCHANGED << db, other_db >>
                    /\ UNCHANGED saved
    /\ pc' = [pc EXCEPT ![r] = "save"]
    /\ base_product' = [base_product EXCEPT ![r] = NoProduct]
    /\ variant_product' = [variant_product EXCEPT ![r] = NoProduct]
    /\ UNCHANGED << color_labels, color_keys, database_api_url, catalog, content_type, tmp_path, files, products,
                    response, absorbed >>

\* ---------------------------------------------------- process_catalog_image

\* Mutant of IsImage: any content type that is present passes.
IsImageAnyType(ct) ==
    /\ ct # None
    /\ ct # EmptyContentType

\* routes.py line 16: the content type is present and starts with 'image/'.
IsImage(ct) ==
    /\ ct # None
    /\ ct # EmptyContentType
    /\ ct.prefix = "image/"

\* One worker serves the requests one after the other, in arrival order.
Turn(r) == \A q \in Requests : q < r => pc[q] = "closed"

\* routes.py line 17: HTTPException(status_code=400)
ClientError == [status_code |-> 400, detail |-> "File must be an image"]

\* Mutant of FailureResponse: the failure is answered with an error status.
FailureResponseAsServerError ==
    [status_code |-> 500, success |-> FALSE, message |-> << "Error processing image" >>,
     extracted_count |-> 0, saved_count |-> 0, products |-> <<>>, results |-> <<>>]

\* routes.py lines 87-95: the response of the except Exception branch.
FailureResponse ==
    [status_code |-> 200, success |-> FALSE, message |-> << "Error processing image" >>,
     extracted_count |-> 0, saved_count |-> 0, products |-> <<>>, results |-> <<>>]

\* Mutant of Message: every candidate that was not saved is reported failed.
MessageFailedAsRest(n, success_count, variant_count, duplicate_count) ==
    IF n = 0 THEN << "No highlighted products found" >>
    ELSE << [part |-> "identified", count |-> n, variants |-> 0] >>
         \o (IF success_count > 0
             THEN << [part |-> "saved", count |-> success_count, variants |-> variant_count] >>
             ELSE <<>>)
         \o (IF duplicate_count > 0
             THEN << [part |-> "already exist", count |-> duplicate_count, variants |-> 0] >>
             ELSE <<>>)
         \o (IF n - success_count > 0
             THEN << [part |-> "failed", count |-> n - success_count, variants |-> 0] >>
             ELSE <<>>)

\* routes.py lines 53-74: the message, as its parts.
Message(n, success_count, variant_count, duplicate_count) ==
    IF n = 0 THEN << "No highlighted products found" >>
    ELSE << [part |-> "identified", count |-> n, variants |-> 0] >>
         \o (IF success_count > 0
             THEN << [part |-> "saved", count |-> success_count, variants |-> variant_count] >>
             ELSE <<>>)
         \o (IF duplicate_count > 0
             THEN << [part |-> "already exist", count |-> duplicate_count, variants |-> 0] >>
             ELSE <<>>)
         \o (IF n - success_count - duplicate_count > 0
             THEN << [part |-> "failed", count |-> n - success_count - duplicate_count,
                      variants |-> 0] >>
             ELSE <<>>)

\* Mutant of Composed: the results leave out the candidates that failed.
ResultIsNotError(result) == result.status # "error"
ComposedWithoutErrors(r) ==
    [status_code |-> 200,
     success |-> (Len(products[r]) # 0 /\ counts[r].success > 0),
     message |-> Message(Len(products[r]), counts[r].success, counts[r].variant,
                         counts[r].duplicate),
     extracted_count |-> Len(products[r]),
     saved_count |-> counts[r].success,
     products |-> products[r],
     results |-> SelectSeq(save_results[r], ResultIsNotError)]

\* Mutant of Composed: success is reported whenever products were extracted.
ComposedSuccessWhenExtracted(r) ==
    [status_code |-> 200,
     success |-> (Len(products[r]) # 0),
     message |-> Message(Len(products[r]), counts[r].success, counts[r].variant,
                         counts[r].duplicate),
     extracted_count |-> Len(products[r]),
     saved_count |-> counts[r].success,
     products |-> products[r],
     results |-> save_results[r]]

\* routes.py lines 53-83: the OCRResponse of a request that got through.
Composed(r) ==
    [status_code |-> 200,
     success |-> (Len(products[r]) # 0 /\ counts[r].success > 0),
     message |-> Message(Len(products[r]), counts[r].success, counts[r].variant,
                         counts[r].duplicate),
     extracted_count |-> Len(products[r]),
     saved_count |-> counts[r].success,
     products |-> products[r],
     results |-> save_results[r]]

\* routes.py lines 97-100: unlink the scratch file if tmp_path was assigned.
Cleanup(r) == IF tmp_path[r] THEN files \ { r } ELSE files

\* routes.py lines 12-17, 85-86, 97-100: a missing or non-image content type
\* is answered 400.
RejectUpload(r) ==
    /\ pc[r] = "idle"
    /\ \E ct \in ContentTypes :
        /\ ~ IsImage(ct)
        /\ content_type' = [content_type EXCEPT ![r] = ct]
    /\ response' = [response EXCEPT ![r] = ClientError]
    /\ files' = Cleanup(r)
    /\ pc' = [pc EXCEPT ![r] = "done"]
    /\ UNCHANGED << color_labels, color_keys, db, other_db, database_api_url, catalog, tmp_path, products, base_product, variant_product,
                    absorbed, save_results, counts, calls, saved, faults >>

\* routes.py lines 12-23: the upload is written to a scratch file.
StageUpload(r) ==
    /\ pc[r] = "idle"
    /\ \E ct \in ContentTypes :
        /\ IsImage(ct)
        /\ content_type' = [content_type EXCEPT ![r] = ct]
    /\ files' = files \cup { r }
    /\ tmp_path' = [tmp_path EXCEPT ![r] = TRUE]
    /\ pc' = [pc EXCEPT ![r] = "extract"]
    /\ UNCHANGED << color_labels, color_keys, db, other_db, database_api_url, catalog, products, base_product, variant_product, absorbed,
                    save_results, counts, response, calls, saved, faults >>

\* routes.py lines 20-23, 87-100: creating the scratch file fails (no file),
\* or reading the upload or writing it fails (the file is there, delete=False,
\* and tmp_path is still None when the finally block runs).
StageUploadFails(r) ==
    /\ pc[r] = "idle"
    /\ faults < MaxFaults
    /\ faults' = faults + 1
    /\ \E ct \in ContentTypes :
        /\ IsImage(ct)
        /\ content_type' = [content_type EXCEPT ![r] = ct]
    /\ \E created \in BOOLEAN :
        files' = IF tmp_path[r] THEN files \ { r }
                 ELSE IF created THEN files \cup { r } ELSE files
    /\ response' = [response EXCEPT ![r] = FailureResponse]
    /\ pc' = [pc EXCEPT ![r] = "done"]
    /\ UNCHANGED << color_labels, color_keys, db, other_db, database_api_url, catalog, tmp_path, products, base_product, variant_product,
                    absorbed, save_results, counts, calls, saved >>

\* Mutant of ExtractProducts: the extraction call is made a second time.
ExtractProductsTwice(r) ==
    /\ pc[r] = "extract"
    /\ calls' = [calls EXCEPT ![r] =
                    Append(Append(@, Call("extract", <<>>, TRUE)), Call("extract", <<>>, TRUE))]
    /\ products' = [products EXCEPT ![r] = catalog]
    /\ pc' = [pc EXCEPT ![r] = "save"]
    /\ UNCHANGED << color_labels, color_keys, db, other_db, database_api_url, catalog, content_type, tmp_path, files, base_product,
                    variant_product, absorbed, save_results, counts, response, saved,
                    faults >>

\* routes.py lines 26-33: the vision model returns the products on the image.
ExtractProducts(r) ==
    /\ pc[r] = "extract"
    /\ calls' = [calls EXCEPT ![r] = Append(@, Call("extract", <<>>, TRUE))]
    /\ products' = [products EXCEPT ![r] = catalog]
    /\ pc' = [pc EXCEPT ![r] = "save"]
    /\ UNCHANGED << color_labels, color_keys, db, other_db, database_api_url, catalog, content_type, tmp_path, files, base_product,
                    variant_product, absorbed, save_results, counts, response, saved,
                    faults >>

\* routes.py lines 26, 87-100: extract_products raises; the request returns
\* the failure response and the scratch file is removed.
ExtractFails(r) ==
    /\ pc[r] = "extract"
    /\ faults < MaxFaults
    /\ faults' = faults + 1
    /\ calls' = [calls EXCEPT ![r] = Append(@, Call("extract", <<>>, FALSE))]
    /\ response' = [response EXCEPT ![r] = FailureResponse]
    /\ files' = Cleanup(r)
    /\ pc' = [pc EXCEPT ![r] = "done"]
    /\ UNCHANGED << color_labels, color_keys, db, other_db, database_api_url, catalog, content_type, tmp_path, products, base_product,
                    variant_product, absorbed, save_results, counts, saved >>

\* routes.py lines 35, 52-83, 97-100: the loop is over; compose the response
\* and remove the scratch file.
Respond(r) ==
    /\ pc[r] = "save"
    /\ Len(save_results[r]) = Len(products[r])
    /\ response' = [response EXCEPT ![r] = Composed(r)]
    /\ files' = Cleanup(r)
    /\ pc' = [pc EXCEPT ![r] = "done"]
    /\ UNCHANGED << color_labels, color_keys, db, other_db, database_api_url, catalog, content_type, tmp_path, products, base_product,
                    variant_product, absorbed, save_results, counts, calls, saved,
                    faults >>

\* The response has been sent and the handler's frame is gone: its locals
\* (tmp_path, result.products, save_results, the counters) and the response
\* object are released.  The request's upload and the files on disk stay.
Close(r) ==
    /\ pc[r] = "done"
    /\ pc' = [pc EXCEPT ![r] = "closed"]
    /\ tmp_path' = [tmp_path EXCEPT ![r] = FALSE]
    /\ products' = [products EXCEPT ![r] = <<>>]
    /\ absorbed' = [absorbed EXCEPT ![r] = {}]
    /\ save_results' = [save_results EXCEPT ![r] = <<>>]
    /\ counts' = [counts EXCEPT ![r] = [success |-> 0, duplicate |-> 0, variant |-> 0]]
    /\ response' = [response EXCEPT ![r] = NoResponse]
    /\ calls' = [calls EXCEPT ![r] = <<>>]
    /\ UNCHANGED << color_labels, color_keys, db, other_db, database_api_url, catalog, content_type, files, base_product, variant_product,
                    saved, faults >>

\* ------------------------------------------------------------ specification

Next ==
    \E r \in Requests :
        \/ Turn(r) /\ RejectUpload(r)
        \/ Turn(r) /\ StageUpload(r)
        \/ Turn(r) /\ StageUploadFails(r)
        \/ ExtractProducts(r)
        \/ ExtractFails(r)
        \/ LookupBase(r)
        \/ LookupVariant(r)
        \/ Upsert(r)
        \/ Respond(r)
        \/ Close(r)

Spec == Init /\ [][Next]_vars

\* Several workers serve the requests: a request starts whenever it
\* arrives, and the steps of the requests in progress interleave.
NextConcurrent ==
    \E r \in Requests :
        \/ RejectUpload(r)
        \/ StageUpload(r)
        \/ StageUploadFails(r)
        \/ ExtractProducts(r)
        \/ ExtractFails(r)
        \/ LookupBase(r)
        \/ LookupVariant(r)
        \/ Upsert(r)
        \/ Respond(r)
        \/ Close(r)

SpecConcurrent == Init /\ [][NextConcurrent]_vars

\* normalize_color applied to each of two labels.
NormalizeColors ==
    /\ color_keys = <<>>
    /\ color_keys' = << normalize_color(color_labels[1]), normalize_color(color_labels[2]) >>
    /\ UNCHANGED << color_labels, db, other_db, database_api_url, catalog, pc, content_type,
                    tmp_path, files, products, base_product, variant_product, absorbed,
                    save_results, counts, response, calls, saved, faults >>

\* normalize_color applied to the key it returned for the first label.
NormalizeAgain ==
    /\ Len(color_keys) = 2
    /\ color_keys' = Append(color_keys, normalize_color(color_keys[1]))
    /\ UNCHANGED << color_labels, db, other_db, database_api_url, catalog, pc, content_type,
                    tmp_path, files, products, base_product, variant_product, absorbed,
                    save_results, counts, response, calls, saved, faults >>

\* normalize_color on its own, over every pair of labels.
InitNormalize ==
    /\ color_labels \in Labels \X Labels
    /\ color_keys = <<>>
    /\ db = [s \in AllSkus |-> NoProduct]
    /\ other_db = [s \in AllSkus |-> NoProduct]
    /\ database_api_url = DefaultDatabaseApiUrl
    /\ catalog = <<>>
    /\ NoRequestYet

NextNormalize ==
    \/ NormalizeColors
    \/ NormalizeAgain

SpecNormalize == InitNormalize /\ [][NextNormalize]_vars

\* The service under any configured database URL.
SpecConfigured == InitConfigured /\ [][Next]_vars

\* ------------------------------------------------------------- properties

Last(s) == s[Len(s)]

\* The step hands the handler a save result for request r.
Appended(r) == Len(save_results'[r]) = Len(save_results[r]) + 1

\* The step issues request r's POST to the database.
UpsertIssued(r) ==
    /\ Len(calls'[r]) = Len(calls[r]) + 1
    /\ Last(calls'[r]).op = "upsert"

IsUpsert(call) == call.op = "upsert"
IsNotDuplicate(result) == result.status # "duplicate"

\* <<base SKU, normalized primary color>> of a candidate.
Pair(product) == << product.sku, normalize_color(product.primary_color) >>

\* The resolver table of the specification (section 4.3), read off a
\* database: decision and final SKU.
Resolve(database, product) ==
    LET base    == database[product.sku]
        variant == database[VariantSkuOf(product)]
        key     == normalize_color(product.primary_color)
    IN  IF base # NoProduct /\ normalize_color(base.color) = key
        THEN [decision |-> "duplicate", final_sku |-> product.sku]
        ELSE IF variant # NoProduct /\ normalize_color(variant.color) = key
        THEN [decision |-> "duplicate", final_sku |-> VariantSkuOf(product)]
        ELSE IF base # NoProduct
        THEN [decision |-> "new_variant", final_sku |-> VariantSkuOf(product)]
        ELSE [decision |-> "new_base", final_sku |-> product.sku]

\* The decision a save result records.
DecisionOf(result, product) ==
    IF result.status = "duplicate" THEN "duplicate"
    ELSE IF result.sku = product.sku THEN "new_base" ELSE "new_variant"

\* C1: once a candidate with base SKU s and normalized primary color c has
\* been saved, and while every lookup and upsert succeeds, every later
\* candidate with the same s and c resolves to 'duplicate' and causes no
\* upsert.
C1_SavedPairIsDuplicate ==
    [][ \A r \in Requests :
          (Appended(r) /\ faults' = 0 /\ Pair(Product(r)) \in saved)
              => /\ Last(save_results'[r]).status = "duplicate"
                 /\ ~ UpsertIssued(r) ]_vars

\* C2: when the same candidate list is processed twice and every call
\* succeeds, the second pass gives 'duplicate' for every candidate and issues
\* no upsert.
C2_SecondPassAllDuplicate ==
    ( /\ pc[1] = "closed" /\ pc[2] = "done"
      /\ faults = 0
      /\ IsImage(content_type[1]) /\ IsImage(content_type[2]) )
        => /\ Len(save_results[2]) = Len(catalog)
           /\ \A i \in 1..Len(save_results[2]) : save_results[2][i].status = "duplicate"
           /\ SelectSeq(calls[2], IsUpsert) = <<>>

\* C3: when the lookups of a candidate are answered, the save result is the
\* one the resolver table gives on the database: the same decision (duplicate,
\* new variant, new base) and the same final SKU, and a new variant saved is
\* reported as a variant.
C3_DecidesAsResolverTable ==
    [][ \A r \in Requests :
          (Appended(r) /\ absorbed'[r] = {})
              => LET product == Product(r)
                     result  == Last(save_results'[r])
                     table   == Resolve(db, product)
                 IN  /\ result.sku = table.final_sku
                     /\ DecisionOf(result, product) = table.decision
                     /\ (result.status = "success")
                            => ((result.error = "variant created")
                                  <=> (table.decision = "new_variant"))
                     /\ UpsertIssued(r) => Last(calls'[r]).sku = table.final_sku ]_vars

\* C3 witness: with every call answered, a request saved a new variant and
\* then met it again as a duplicate of that variant SKU.
C3_Witness ==
    \E r \in Requests :
        /\ faults = 0
        /\ Len(save_results[r]) = 2
        /\ save_results[r][1].status = "success"
        /\ save_results[r][1].error = "variant created"
        /\ save_results[r][2].status = "duplicate"
        /\ save_results[r][2].sku = VariantSkuOf(products[r][2])

\* C4: while every lookup is answered, no upsert is issued for a SKU
\* that the database holds with a different normalized color than the
\* candidate's primary color.
C4_NoOverwriteOfOtherColor ==
    [][ \A r \in Requests :
          (UpsertIssued(r) /\ faults' = 0)
              => LET sku == Last(calls'[r]).sku
                 IN  \/ db[sku] = NoProduct
                     \/ normalize_color(db[sku].color)
                           = normalize_color(Product(r).primary_color) ]_vars

\* C5: a candidate that resolves to 'duplicate' issues no upsert and leaves
\* the database as it was; an upsert is issued only with a save result that
\* is not 'duplicate', and the lookups of a candidate change nothing.
C5_DuplicateWritesNothing ==
    [][ \A r \in Requests :
          /\ (Appended(r) /\ Last(save_results'[r]).status = "duplicate")
                => (db' = db /\ ~ UpsertIssued(r))
          /\ UpsertIssued(r)
                => (Appended(r) /\ Last(save_results'[r]).status # "duplicate")
          /\ (pc[r] \in { "save", "variant" }) => db' = db ]_vars

\* C5 witness: a request finished with a duplicate of a base SKU, a duplicate
\* of a variant SKU, and no upsert among its calls.
C5_Witness ==
    \E r \in Requests :
        /\ pc[r] = "done"
        /\ Len(save_results[r]) = 2
        /\ save_results[r][1].status = "duplicate"
        /\ save_results[r][1].sku = products[r][1].sku
        /\ save_results[r][2].status = "duplicate"
        /\ save_results[r][2].sku = VariantSkuOf(products[r][2])
        /\ SelectSeq(calls[r], IsUpsert) = <<>>

\* The database as the service sees it when the lookups of the SKUs in
\* missing fail.
Without(database, missing) ==
    [s \in DOMAIN database |-> IF s \in missing THEN NoProduct ELSE database[s]]

C7_UpsertErrorDoesNotAbort ==
    \A r \in Requests :
        ( /\ pc[r] = "done"
          /\ calls[r] # <<>>
          /\ calls[r][1].ok )
            => LET results == response[r].results
                   posted  == SelectSeq(calls[r], IsUpsert)
                   written == SelectSeq(results, IsNotDuplicate)
               IN  /\ response[r].status_code = 200
                   /\ Len(results) = Len(catalog)
                   /\ response[r].extracted_count = Len(catalog)
                   /\ \A i \in 1..Len(results) :
                         /\ results[i].sku \in { catalog[i].sku, VariantSkuOf(catalog[i]) }
                         /\ \E k \in 1..Len(calls[r]) :
                               calls[r][k] \in { Call("lookup", catalog[i].sku, ok) : ok \in BOOLEAN }
                   /\ Len(posted) = Len(written)
                   /\ \A j \in 1..Len(posted) :
                         /\ posted[j].sku = written[j].sku
                         /\ (~ posted[j].ok) <=> (written[j].status = "error")

\* C7 witness: the first candidate's upsert failed, the second candidate's
\* upsert succeeded, and the response lists both.
C7_Witness ==
    \E r \in Requests :
        /\ pc[r] = "done"
        /\ response[r].status_code = 200
        /\ Len(response[r].results) = 2
        /\ response[r].results[1].status = "error"
        /\ response[r].results[2].status = "success"
        /\ response[r].success

\* C8: when a request has finished, on whatever path, its scratch file does
\* not exist.
C8_ScratchFileRemoved ==
    \A r \in Requests : pc[r] = "done" => r \notin files

\* The content type is missing or does not start with 'image/'.
NotAnImageType(ct) == ct = None \/ ct.prefix # "image/"

\* C9: a request whose content type is missing or does not start with
\* 'image/' ends with the 400 client error, having made no extraction call,
\* no lookup and no upsert and created no scratch file.
C9_NonImageRejected ==
    \A r \in Requests :
        (pc[r] \notin { "idle", "closed" } /\ NotAnImageType(content_type[r]))
            => /\ pc[r] = "done"
               /\ response[r].status_code = 400
               /\ calls[r] = <<>>
               /\ r \notin files
               /\ ~ tmp_path[r]
               /\ products[r] = <<>> /\ save_results[r] = <<>>

\* C9 witness: a text/plain upload was answered 400.
C9_Witness ==
    \E r \in Requests :
        /\ pc[r] = "done"
        /\ content_type[r] = ContentType("text/", "plain")
        /\ response[r] = ClientError

\* C10: when the extraction call fails, the request answers a normal response
\* with success false, zero counts and empty products and results, and has
\* made no lookup and no upsert.
C10_ExtractionFailureResponse ==
    \A r \in Requests :
        ( /\ pc[r] = "done"
          /\ calls[r] # <<>>
          /\ calls[r][1] = Call("extract", <<>>, FALSE) )
            => /\ response[r].status_code = 200
               /\ response[r].success = FALSE
               /\ response[r].extracted_count = 0
               /\ response[r].saved_count = 0
               /\ response[r].products = <<>>
               /\ response[r].results = <<>>
               /\ Len(calls[r]) = 1
               /\ products[r] = <<>>

\* C10 witness: an image upload whose extraction failed has been answered.
C10_Witness ==
    \E r \in Requests :
        /\ pc[r] = "done"
        /\ IsImage(content_type[r])
        /\ calls[r] = << Call("extract", <<>>, FALSE) >>
        /\ response[r] # NoResponse

\* The operation and SKU of every call of a log, in order.
OpsOf(log) == [i \in 1..Len(log) |-> << log[i].op, log[i].sku >>]

\* The calls a finished candidate made, read off its result: the base
\* lookup; then the variant lookup unless it was a duplicate of the base
\* SKU; then the upsert unless it was a duplicate.
CallsOfCandidate(product, result) ==
    IF result.status = "duplicate" /\ result.sku = product.sku
    THEN << << "lookup", product.sku >> >>
    ELSE IF result.status = "duplicate"
    THEN << << "lookup", product.sku >>, << "lookup", VariantSkuOf(product) >> >>
    ELSE << << "lookup", product.sku >>, << "lookup", VariantSkuOf(product) >>,
            << "upsert", result.sku >> >>

RECURSIVE CallsOfCandidates(_, _, _)
CallsOfCandidates(prods, results, n) ==
    IF n = 0 THEN <<>>
    ELSE CallsOfCandidates(prods, results, n - 1) \o CallsOfCandidate(prods[n], results[n])

\* The calls made so far for the candidate in hand.
CallsInHand(r) ==
    IF pc[r] = "variant" THEN << << "lookup", Product(r).sku >> >>
    ELSE IF pc[r] = "upsert"
    THEN << << "lookup", Product(r).sku >>, << "lookup", VariantSkuOf(Product(r)) >> >>
    ELSE <<>>

\* The request got as far as the extraction call.
ReachedExtraction(r) ==
    \/ pc[r] \in { "save", "variant", "upsert" }
    \/ pc[r] = "done" /\ tmp_path[r]

\* C11: no external call is repeated: a request that reached extraction has
\* made exactly one extraction call (and none before), and then, candidate by
\* candidate in order, one base lookup, after it at most one variant lookup,
\* and after both at most one upsert, whatever the calls returned.
C11_NoCallRepeated ==
    \A r \in Requests :
        pc[r] # "closed"
            => OpsOf(calls[r])
                 = (IF ReachedExtraction(r) THEN << << "extract", <<>> >> >> ELSE <<>>)
                   \o CallsOfCandidates(products[r], save_results[r], Len(save_results[r]))
                   \o CallsInHand(r)

\* C11 witness: a request finished two candidates although a lookup and an
\* upsert failed on the way.
C11_Witness ==
    \E r \in Requests :
        /\ pc[r] = "done"
        /\ Len(save_results[r]) = 2
        /\ \E i, j \in 1..Len(calls[r]) :
              /\ calls[r][i].op = "lookup" /\ ~ calls[r][i].ok
              /\ calls[r][j].op = "upsert" /\ ~ calls[r][j].ok

\* The request ran its save loop to the end and has its response.
GotThrough(r) ==
    /\ pc[r] = "done"
    /\ tmp_path[r]
    /\ calls[r] # <<>>
    /\ calls[r][1].ok

\* The candidates of request r whose outcome has the given status.
WithStatus(r, status) ==
    { i \in 1..Len(save_results[r]) : save_results[r][i].status = status }

\* The successes of request r that were saved under a SKU other than the
\* candidate's own.
SavedAsVariant(r) ==
    { i \in WithStatus(r, "success") : save_results[r][i].sku # products[r][i].sku }

\* The message reports the part exactly when the count is positive, once,
\* with that count.
Reports(message, part, count) ==
    LET at == { i \in 1..Len(message) : message[i].part = part }
    IN  IF count > 0
        THEN /\ Cardinality(at) = 1
             /\ \A i \in at : message[i].count = count
        ELSE at = {}

\* C12: the composed response is consistent with the per-candidate outcomes:
\* extracted_count is the number of candidates, saved_count the number of
\* successes, the message reports saved / already exist / failed exactly when
\* the number of success / duplicate / error outcomes is positive and with
\* that number, the variants reported are the successes saved under a minted
\* variant SKU, and with at least one success the success flag is true.
C12_ResponseMatchesOutcomes ==
    \A r \in Requests :
        GotThrough(r) =>
            LET n == Len(catalog)
                s == Cardinality(WithStatus(r, "success"))
                d == Cardinality(WithStatus(r, "duplicate"))
                e == Cardinality(WithStatus(r, "error"))
                message == response[r].message
            IN  /\ Len(save_results[r]) = n
                /\ response[r].extracted_count = n
                /\ response[r].saved_count = s
                /\ Len(response[r].results) = n
                /\ n - s - d = e
                /\ IF n = 0
                   THEN message = << "No highlighted products found" >>
                   ELSE /\ Reports(message, "identified", n)
                        /\ Reports(message, "saved", s)
                        /\ Reports(message, "already exist", d)
                        /\ Reports(message, "failed", e)
                        /\ \A i \in 1..Len(message) :
                              message[i].part = "saved"
                                  => message[i].variants = Cardinality(SavedAsVariant(r))
                /\ (s >= 1 => response[r].success)

\* C12 witness: a response for two candidates, one saved as a variant and one
\* a duplicate.
C12_Witness ==
    \E r \in Requests :
        /\ GotThrough(r)
        /\ Len(save_results[r]) = 2
        /\ SavedAsVariant(r) # {}
        /\ WithStatus(r, "duplicate") # {}

\* The request has an OCRResponse (and not the 400 answer).
HasOCRResponse(r) ==
    /\ pc[r] = "done"
    /\ response[r].status_code = 200

\* C15: success is true exactly when at least one candidate was saved;
\* saved_count never exceeds extracted_count and the variant count never
\* exceeds saved_count.
C15_SuccessIffSaved ==
    \A r \in Requests :
        HasOCRResponse(r) =>
            /\ response[r].success <=> (response[r].saved_count >= 1)
            /\ response[r].saved_count <= response[r].extracted_count
            /\ counts[r].variant <= response[r].saved_count
            /\ Cardinality(SavedAsVariant(r)) <= response[r].saved_count

\* C15 witness: candidates were extracted, all of them resolved to duplicate,
\* and the response says success = false.
C15_Witness ==
    \E r \in Requests :
        /\ GotThrough(r)
        /\ Len(save_results[r]) >= 1
        /\ WithStatus(r, "duplicate") = 1..Len(save_results[r])
        /\ ~ response[r].success

\* C13: lookups and upserts address the same database: for every configured
\* base URL, a product an upsert has written is what the next lookup of its
\* SKU returns.
C13_UpsertVisibleToLookup ==
    [][\A r \in Requests :
          (pc[r] = "upsert" /\ UpsertIssued(r) /\ Last(calls'[r]).ok)
              => db'[Last(calls'[r]).sku] = Stored(Product(r).primary_color)]_vars

\* The separators the claim lets two labels differ in.
IsNotSeparator(ch) == ch \notin { Space, "-", "_" }

RECURSIVE Trimmed(_)
\* The label without its surrounding whitespace.
Trimmed(s) ==
    IF s = <<>> THEN <<>>
    ELSE IF Head(s) \in Whitespace THEN Trimmed(Tail(s))
    ELSE IF s[Len(s)] \in Whitespace THEN Trimmed(SubSeq(s, 1, Len(s) - 1))
    ELSE s

RECURSIVE Letters(_)
\* What is left of a label when case, surrounding whitespace and separators
\* are disregarded, however they are nested.
Letters(s) ==
    LET t == SelectSeq(Trimmed(s), IsNotSeparator)
    IN  IF t = s THEN [i \in 1..Len(s) |-> IF s[i] = "W" THEN "w" ELSE s[i]]
        ELSE Letters(t)

\* C14: normalize_color gives two labels that differ only in letter case,
\* surrounding whitespace and the presence of space, hyphen or underscore
\* characters the same key, gives the empty label the empty key, and
\* returns a key unchanged when applied to it.
C14_NormalizeColorCanonical ==
    /\ Len(color_keys) >= 2 =>
          /\ Letters(color_labels[1]) = Letters(color_labels[2])
                => color_keys[1] = color_keys[2]
          /\ color_labels[1] = <<>> => color_keys[1] = <<>>
    /\ Len(color_keys) = 3 => color_keys[3] = color_keys[1]

\* Request r has issued an upsert.
HasUpserted(r) == \E i \in 1..Len(calls[r]) : calls[r][i].op = "upsert"

\* C16: when two requests carrying the same single candidate are processed
\* with their steps interleaved and no call fails, at most one of them issues
\* an upsert for the candidate, and the other resolves it to duplicate.
C16_OneUpsertWhenInterleaved ==
    (Len(catalog) = 1 /\ faults = 0) =>
        \A r, q \in Requests :
            r # q =>
                /\ ~ (HasUpserted(r) /\ HasUpserted(q))
                /\ (HasUpserted(r) /\ Len(save_results[q]) = 1)
                       => save_results[q][1].status = "duplicate"

====
